---- MODULE Spec2Model ----
(***************************************************************************)
(* A model of the version resolution and installation engine of erm:      *)
(* `install` (src/src/commands/install.rs), `local` and the symlink       *)
(* switch (src/src/commands/local.rs) and the Version value type          *)
(* (src/src/version.rs).  One command runs at a time; the file system     *)
(* persists between commands.  Strings are sequences of one-character     *)
(* strings, so that formatting and parsing are computed, not assumed.     *)
(***************************************************************************)
EXTENDS Naturals, Sequences, FiniteSets

\* ------------------------------------------------------------- bounds
\* Depth of the deepest working directory below the root (root is level 0).
MaxDepth == 1
\* Largest number of top-level entries an extracted archive holds.
MaxEntries == 2
\* Longest free-form text handed to Version::parse
MaxTextLen == 3
\* Largest major, minor and patch number of the well-formed texts
MaxNum == 1
\* Most messages written in one run
MaxMessages == 4

\* ------------------------------------------------------------ strings
Digits == <<"0", "1", "2", "3", "4", "5", "6", "7", "8", "9">>
UpperChars == <<"A", "B", "C", "D", "E", "F", "G", "H", "I", "J", "K", "L", "M",
                "N", "O", "P", "Q", "R", "S", "T", "U", "V", "W", "X", "Y", "Z">>
LowerChars == <<"a", "b", "c", "d", "e", "f", "g", "h", "i", "j", "k", "l", "m",
                "n", "o", "p", "q", "r", "s", "t", "u", "v", "w", "x", "y", "z">>

IsDigit(c) == \E i \in 1..10 : Digits[i] = c
DigitValue(c) == (CHOOSE i \in 1..10 : Digits[i] = c) - 1

\* char::to_lowercase on the ASCII range
LowerChar(c) ==
    IF \E i \in 1..26 : UpperChars[i] = c
    THEN LowerChars[CHOOSE i \in 1..26 : UpperChars[i] = c]
    ELSE c

\* str::to_lowercase
ToLowercase(s) == [i \in 1..Len(s) |-> LowerChar(s[i])]

\* str::trim_start_matches('v'): every leading 'v' is removed
RECURSIVE TrimStartMatchesV(_)
TrimStartMatchesV(s) ==
    IF s # <<>> /\ Head(s) = "v" THEN TrimStartMatchesV(Tail(s)) ELSE s

start_with_number(s) == s # <<>> /\ IsDigit(Head(s))

\* Decimal rendering of a natural number (Display for u64)
RECURSIVE NatToStr(_)
NatToStr(n) ==
    IF n < 10 THEN <<Digits[n + 1]>>
    ELSE NatToStr(n \div 10) \o <<Digits[(n % 10) + 1]>>

\* Value of a non-empty string of digits
RECURSIVE StrToNat(_)
StrToNat(s) ==
    IF Len(s) = 1 THEN DigitValue(s[1])
    ELSE 10 * StrToNat(SubSeq(s, 1, Len(s) - 1)) + DigitValue(s[Len(s)])

\* Length of the longest prefix of s made of digits
RECURSIVE DigitPrefixLen(_)
DigitPrefixLen(s) ==
    IF s # <<>> /\ IsDigit(Head(s)) THEN 1 + DigitPrefixLen(Tail(s)) ELSE 0

\* ------------------------------------------------------------ Version
NoVersion == [kind |-> "None", major |-> 0, minor |-> 0, patch |-> 0,
              pre |-> <<>>, name |-> <<>>]
Semver(ma, mi, pa, pr) == [kind |-> "Semver", major |-> ma, minor |-> mi,
                           patch |-> pa, pre |-> pr, name |-> <<>>]
Alias(n) == [kind |-> "Alias", major |-> 0, minor |-> 0, patch |-> 0,
             pre |-> <<>>, name |-> n]

\* A numeric component: digits, no leading zero unless it is "0"
NumericOk(s) == s # <<>> /\ (Len(s) > 1 => Head(s) # "0")

\* semver::Version::parse on major.minor.patch[-pre]
SemverParse(s) ==
    LET n1 == DigitPrefixLen(s)
        r1 == SubSeq(s, n1 + 1, Len(s))
        n2 == IF r1 # <<>> /\ Head(r1) = "." THEN DigitPrefixLen(Tail(r1)) ELSE 0
        r2 == IF r1 = <<>> THEN <<>> ELSE SubSeq(r1, n2 + 2, Len(r1))
        n3 == IF r2 # <<>> /\ Head(r2) = "." THEN DigitPrefixLen(Tail(r2)) ELSE 0
        r3 == IF r2 = <<>> THEN <<>> ELSE SubSeq(r2, n3 + 2, Len(r2))
        s1 == SubSeq(s, 1, n1)
        s2 == IF n2 = 0 THEN <<>> ELSE SubSeq(r1, 2, n2 + 1)
        s3 == IF n3 = 0 THEN <<>> ELSE SubSeq(r2, 2, n3 + 1)
        preOk == r3 = <<>> \/ (Len(r3) > 1 /\ Head(r3) = "-"
                               /\ \A i \in 2..Len(r3) : r3[i] \notin {"-", "+", "."})
    IN  IF NumericOk(s1) /\ NumericOk(s2) /\ NumericOk(s3) /\ preOk
        THEN [ok |-> TRUE,
              version |-> Semver(StrToNat(s1), StrToNat(s2), StrToNat(s3),
                                 IF r3 = <<>> THEN <<>> ELSE Tail(r3))]
        ELSE [ok |-> FALSE, version |-> NoVersion]

\* Faulty variant of Parse: a text semver rejects becomes an alias
Parse_NeverFails(version_str) ==
    LET lowercased == ToLowercase(version_str)
        parsed_version == SemverParse(TrimStartMatchesV(lowercased))
    IN  IF start_with_number(TrimStartMatchesV(lowercased)) /\ parsed_version.ok
        THEN parsed_version
        ELSE [ok |-> TRUE, version |-> Alias(lowercased)]

\* Version::parse
Parse(version_str) ==
    LET lowercased == ToLowercase(version_str)
    IN  IF start_with_number(TrimStartMatchesV(lowercased))
        THEN SemverParse(TrimStartMatchesV(lowercased))
        ELSE [ok |-> TRUE, version |-> Alias(lowercased)]

\* Display for semver::Version
SemverToStr(v) ==
    NatToStr(v.major) \o <<".">> \o NatToStr(v.minor) \o <<".">> \o NatToStr(v.patch)
        \o (IF v.pre = <<>> THEN <<>> ELSE <<"-">> \o v.pre)

\* Display for Version
Render(v) == IF v.kind = "Semver" THEN <<"v">> \o SemverToStr(v) ELSE v.name

\* Display for InputVersion::Full(version): the version's own rendering
InputVersionToString(v) == Render(v)


\* ------------------------------------------------------------- inputs
\* Version strings handed to `install` (Install.version is a String)
InstallArgs == { <<"2", ".", "6", ".", "4">>,
                 <<"v", "2", ".", "6", ".", "4">>,
                 <<"l", "a", "t", "e", "s", "t">> }
\* Versions handed to `local` or read from a version file
LocalVersions == { Semver(2, 6, 4, <<>>), Alias(<<"l", "a", "t", "e", "s", "t">>) }
\* Directory levels: 0 is the file system root, cwd is one of them
Levels == 0..MaxDepth
\* What reqwest::blocking::get yields: a transport error or a status
Responses == {"transport_error", "200", "404", "500"}
\* Top-level entries an archive may unpack to
Archives == SUBSET (1..MaxEntries)

\* -------------------------------------------------------------- paths
NoLink == [kind |-> "none", name |-> <<>>]
\* config.default_version_dir(): the global default link
DefaultVersionDir == [kind |-> "default", name |-> <<>>]
\* config.versions_dir().join(name)
VersionsDirJoin(n) == [kind |-> "version", name |-> n]

NoTemp == [exists |-> FALSE, entries |-> {}]

\* ------------------------------------------------------------ results
Result(k, v, a, e) == [kind |-> k, version |-> v, arg |-> a, io |-> e]
NoResult == Result("None", NoVersion, <<>>, {})
Ok == Result("Ok", NoVersion, <<>>, {})
IoError(e) == Result("IoError", NoVersion, <<>>, e)

NoCmd == [name |-> "none", arg |-> <<>>, explicit |-> NoVersion, cwd |-> 0,
          cwd_ok |-> TRUE, farm_path |-> FALSE]

VARIABLES
    versions_dir,        \* whether <base>/versions exists
    downloads_dir,       \* whether <base>/versions/.downloads exists
    versions,            \* names of the non-hidden entries of <base>/versions
    temp_dir,            \* the TempDir of the running install
    link,                \* what is at farm_path: NoLink or the link's target
    version_files,       \* per directory level: the version its file pins, or NoVersion
    pc,                  \* position of the running command
    cmd,                 \* the running (or last) command and its configuration
    response,            \* install: the response of the download
    installed_directory, \* install: the entry of temp_dir that is built and promoted
    build_status,        \* install: how the external build ended
    current_version,     \* local: the resolved version
    from,                \* replace_symlink: the target of the new link
    symlink_deletion_result, \* replace_symlink: the result of the removal
    symlink_creation_result, \* replace_symlink: the result of the creation
    result,              \* what the command returned
    pre,                 \* the file system as it was when the command started
    listed,              \* completions --list: the entries a line was written for
    text,                \* Version::parse: the string handed to it
    parsed,              \* Version::parse: what it returned for text
    rendered,            \* Display for Version: the rendering of parsed
    reparsed,            \* Version::parse: what it returned for rendered
    log_level,           \* config.log_level
    outputs              \* outln!: per message, its level and the stream it went to

vars == <<versions_dir, downloads_dir, versions, temp_dir, link, version_files, pc,
          cmd, response, installed_directory, build_status, current_version, from,
          symlink_deletion_result, symlink_creation_result, result, pre, listed,
          text, parsed, rendered, reparsed, log_level, outputs>>

fs == <<versions_dir, downloads_dir, versions, temp_dir, link>>
install_vars == <<response, installed_directory, build_status>>
local_vars == <<current_version, from, symlink_deletion_result, symlink_creation_result>>
log_vars == <<log_level, outputs>>
pure_vars == <<text, parsed, rendered, reparsed, log_vars>>

\* Version::parse not called yet
NotParsed == [done |-> FALSE, ok |-> FALSE, version |-> NoVersion]

Finished == {"Installed", "Activated", "Listed", "Failed", "Panicked"}

Snapshot == [versions_dir |-> versions_dir, downloads_dir |-> downloads_dir,
             versions |-> versions, link |-> link]

Init ==
    /\ versions_dir = FALSE
    /\ downloads_dir = FALSE
    /\ versions = {}
    /\ temp_dir = NoTemp
    /\ link = NoLink
    /\ version_files \in [Levels -> LocalVersions \cup {NoVersion}]
    /\ pc = "Idle"
    /\ cmd = NoCmd
    /\ response = "none"
    /\ installed_directory = 0
    /\ build_status = "none"
    /\ current_version = NoVersion
    /\ from = NoLink
    /\ symlink_deletion_result = "none"
    /\ symlink_creation_result = "none"
    /\ result = NoResult
    /\ pre = [versions_dir |-> FALSE, downloads_dir |-> FALSE, versions |-> {},
              link |-> NoLink]
    /\ listed = {}
    /\ text = <<>>
    /\ parsed = NotParsed
    /\ rendered = <<>>
    /\ reparsed = NotParsed
    /\ log_level = "Info"
    /\ outputs = <<>>

\* `apply` returns err: the TempDir, if any, is dropped and so removed
Fail(err) ==
    /\ pc' = "Failed"
    /\ result' = err
    /\ temp_dir' = NoTemp

\* an `unwrap` or `expect` fails: the process ends, unwinding drops the TempDir
Panic ==
    /\ pc' = "Panicked"
    /\ result' = NoResult
    /\ temp_dir' = NoTemp

\* ------------------------------------------------------------ install
StartInstall(arg) ==
    /\ pc \in Finished \cup {"Idle"}
    /\ pc' = "Downloading"
    /\ cmd' = [NoCmd EXCEPT !.name = "install", !.arg = arg]
    /\ response' = "none"
    /\ installed_directory' = 0
    /\ build_status' = "none"
    /\ current_version' = NoVersion
    /\ from' = NoLink
    /\ symlink_deletion_result' = "none"
    /\ symlink_creation_result' = "none"
    /\ result' = NoResult
    /\ pre' = Snapshot
    /\ UNCHANGED <<fs, version_files>>
    /\ listed' = {}
    /\ UNCHANGED pure_vars

\* Faulty variant of StatusIsNotFound: another status is taken for "not found"
StatusIsNotFound_WrongStatus(status) == status = "400"

\* response.status() == 404
StatusIsNotFound(status) == status = "404"

\* The get, the status check and the staging directories
Download(resp, stage) ==
    /\ pc = "Downloading"
    /\ response' = resp
    /\ IF resp = "transport_error"
       THEN /\ Fail(Result("HttpError", NoVersion, <<>>, {}))
            /\ UNCHANGED <<versions_dir, downloads_dir>>
       ELSE IF StatusIsNotFound(resp)
       THEN /\ Fail(Result("VersionNotFound", NoVersion, cmd.arg, {}))
            /\ UNCHANGED <<versions_dir, downloads_dir>>
       ELSE CASE stage = "versions_dir_fails" ->
                   /\ Fail(IoError({"CreateDirFailed"}))
                   /\ UNCHANGED <<versions_dir, downloads_dir>>
              [] stage = "downloads_dir_fails" ->
                   /\ versions_dir' = TRUE
                   /\ Fail(IoError({"CreateDirFailed"}))
                   /\ UNCHANGED downloads_dir
              [] stage = "temp_dir_fails" ->
                   /\ versions_dir' = TRUE
                   /\ downloads_dir' = TRUE
                   /\ Panic
              [] OTHER ->
                   /\ versions_dir' = TRUE
                   /\ downloads_dir' = TRUE
                   /\ temp_dir' = [exists |-> TRUE, entries |-> {}]
                   /\ pc' = "Extracting"
                   /\ UNCHANGED result
    /\ UNCHANGED <<versions, link, version_files, cmd, installed_directory,
                   build_status, local_vars, pre>>
    /\ UNCHANGED <<listed, pure_vars>>

\* extract_archive_into, then the first entry read_dir yields
\* Faulty variant of VersionsAfterExtract: the archive is unpacked at the final path
VersionsAfterExtract_InPlace == versions \cup {cmd.arg}

\* extract_archive_into(&temp_dir, ..) writes below temp_dir only
VersionsAfterExtract == versions

Extract(archive, fault) ==
    /\ pc = "Extracting"
    /\ versions' = VersionsAfterExtract
    /\ CASE fault = "extract_fails" ->
              /\ Fail(Result("ExtractError", NoVersion, <<>>, {}))
              /\ UNCHANGED installed_directory
         [] fault = "read_dir_fails" ->
              /\ Fail(IoError({"ReadDirFailed"}))
              /\ UNCHANGED installed_directory
         [] OTHER ->
              IF archive = {}
              THEN /\ Fail(Result("TarIsEmpty", NoVersion, <<>>, {}))
                   /\ UNCHANGED installed_directory
              ELSE /\ \E entry \in archive : installed_directory' = entry
                   /\ temp_dir' = [exists |-> TRUE, entries |-> archive]
                   /\ pc' = "Building"
                   /\ UNCHANGED result
    /\ UNCHANGED <<versions_dir, downloads_dir, link, version_files, cmd,
                   response, build_status, local_vars, pre>>
    /\ UNCHANGED <<listed, pure_vars>>

\* Faulty variant of Build: a build that exits with failure makes `apply` fail
Build_ChecksStatus(outcome) ==
    /\ pc = "Building"
    /\ IF outcome = "fails_to_start"
       THEN /\ Panic
            /\ UNCHANGED build_status
       ELSE IF outcome = "failure"
       THEN /\ build_status' = outcome
            /\ Fail(Result("BuildFailed", NoVersion, <<>>, {}))
       ELSE /\ build_status' = outcome
            /\ pc' = "Promoting"
            /\ UNCHANGED <<result, temp_dir>>
    /\ UNCHANGED <<versions_dir, downloads_dir, versions, link, version_files, cmd,
                   response, installed_directory, local_vars, pre>>
    /\ UNCHANGED <<listed, pure_vars>>

\* Faulty variant of Build: `apply` returns Ok right after the build
Build_ReturnsEarly(outcome) ==
    /\ pc = "Building"
    /\ outcome # "fails_to_start"
    /\ build_status' = outcome
    /\ pc' = "Installed"
    /\ result' = Ok
    /\ temp_dir' = NoTemp
    /\ UNCHANGED <<versions_dir, downloads_dir, versions, link, version_files, cmd,
                   response, installed_directory, local_vars, pre>>
    /\ UNCHANGED <<listed, pure_vars>>

\* build_package: configure and make run to completion, or fail to start
Build(outcome) ==
    /\ pc = "Building"
    /\ IF outcome = "fails_to_start"
       THEN /\ Panic
            /\ UNCHANGED build_status
       ELSE /\ build_status' = outcome
            /\ pc' = "Promoting"
            /\ UNCHANGED <<result, temp_dir>>
    /\ UNCHANGED <<versions_dir, downloads_dir, versions, link, version_files, cmd,
                   response, installed_directory, local_vars, pre>>
    /\ UNCHANGED <<listed, pure_vars>>

\* PathBuf::from(&installations_dir).join(self.version.clone())
InstallationDirName == cmd.arg

\* Faulty variant of VersionsAfterRename: the final directory is there whether or not the
\* rename succeeded (as when it is created before the move)
VersionsAfterRename_CreatedFirst(renamed) == versions \cup {InstallationDirName}

\* The entries of <base>/versions after std::fs::rename returned
VersionsAfterRename(renamed) ==
    IF renamed THEN versions \cup {InstallationDirName} ELSE versions

\* Faulty variant of DroppedTempDir: the staging directory is kept (into_path)
DroppedTempDir_Kept == temp_dir

\* temp_dir goes out of scope when `apply` returns: TempDir's drop removes it
DroppedTempDir == NoTemp

\* std::fs::rename(&installed_directory, &installation_dir), then the return
Promote(renamed) ==
    /\ pc = "Promoting"
    /\ versions' = VersionsAfterRename(renamed)
    /\ temp_dir' = DroppedTempDir
    /\ IF renamed
       THEN /\ pc' = "Installed"
            /\ result' = Ok
       ELSE /\ pc' = "Failed"
            /\ result' = IoError({"RenameFailed"})
    /\ UNCHANGED <<versions_dir, downloads_dir, link, version_files, cmd, install_vars,
                   local_vars, pre>>
    /\ UNCHANGED <<listed, pure_vars>>


\* -------------------------------------------------------------- local
StartLocal(explicit, cwd, cwd_ok, farm_path) ==
    /\ pc \in Finished \cup {"Idle"}
    /\ pc' = "Resolving"
    /\ cmd' = [NoCmd EXCEPT !.name = "local", !.explicit = explicit, !.cwd = cwd,
                            !.cwd_ok = cwd_ok, !.farm_path = farm_path]
    /\ response' = "none"
    /\ installed_directory' = 0
    /\ build_status' = "none"
    /\ current_version' = NoVersion
    /\ from' = NoLink
    /\ symlink_deletion_result' = "none"
    /\ symlink_creation_result' = "none"
    /\ result' = NoResult
    /\ pre' = Snapshot
    /\ UNCHANGED <<fs, version_files>>
    /\ listed' = {}
    /\ UNCHANGED pure_vars

\* get_user_version_for_directory: the version file of the nearest ancestor
RECURSIVE get_user_version_for_directory(_)
get_user_version_for_directory(dir) ==
    IF version_files[dir] # NoVersion THEN version_files[dir]
    ELSE IF dir = 0 THEN NoVersion
    ELSE get_user_version_for_directory(dir - 1)

\* Faulty variant of ExplicitGiven: a version file is preferred to the explicit version
ExplicitGiven_FileFirst ==
    cmd.explicit # NoVersion /\ get_user_version_for_directory(cmd.cwd) = NoVersion

\* self.version is Some: ok_or_else does not call its closure
ExplicitGiven == cmd.explicit # NoVersion

\* self.version.clone().ok_or_else(..)
Resolve ==
    /\ pc = "Resolving"
    /\ IF ExplicitGiven
       THEN /\ current_version' = cmd.explicit
            /\ pc' = "Checking"
       ELSE /\ pc' = "Inferring"
            /\ UNCHANGED current_version
    /\ UNCHANGED <<fs, version_files, cmd, install_vars, from, symlink_deletion_result,
                   symlink_creation_result, result, pre>>
    /\ UNCHANGED <<listed, pure_vars>>

\* Faulty variant of Infer: a missing farm_path is reported as CantInferVersion
Infer_IgnoresFarmPath ==
    /\ pc = "Inferring"
    /\ IF ~cmd.cwd_ok
       THEN /\ Panic
            /\ UNCHANGED <<current_version, from>>
       ELSE IF get_user_version_for_directory(cmd.cwd) # NoVersion
       THEN /\ current_version' = get_user_version_for_directory(cmd.cwd)
            /\ pc' = "Checking"
            /\ UNCHANGED <<from, result, temp_dir>>
       ELSE IF ~cmd.farm_path
       THEN /\ Fail(Result("CantInferVersion", NoVersion, <<>>, {}))
            /\ UNCHANGED <<current_version, from>>
       ELSE /\ from' = DefaultVersionDir
            /\ pc' = "Removing"
            /\ UNCHANGED <<current_version, result, temp_dir>>
    /\ UNCHANGED <<versions_dir, downloads_dir, versions, link, version_files, cmd,
                   install_vars, symlink_deletion_result, symlink_creation_result, pre>>
    /\ UNCHANGED <<listed, pure_vars>>

\* The closure: the version file lookup, else the repoint to the global default
Infer ==
    /\ pc = "Inferring"
    /\ IF ~cmd.cwd_ok
       THEN /\ Panic
            /\ UNCHANGED <<current_version, from>>
       ELSE IF get_user_version_for_directory(cmd.cwd) # NoVersion
       THEN /\ current_version' = get_user_version_for_directory(cmd.cwd)
            /\ pc' = "Checking"
            /\ UNCHANGED <<from, result, temp_dir>>
       ELSE IF ~cmd.farm_path
       THEN /\ Fail(Result("FarmPathNotFound", NoVersion, <<>>, {}))
            /\ UNCHANGED <<current_version, from>>
       ELSE /\ from' = DefaultVersionDir
            /\ pc' = "Removing"
            /\ UNCHANGED <<current_version, result, temp_dir>>
    /\ UNCHANGED <<versions_dir, downloads_dir, versions, link, version_files, cmd,
                   install_vars, symlink_deletion_result, symlink_creation_result, pre>>
    /\ UNCHANGED <<listed, pure_vars>>

\* Faulty variant of InstallationExists: the installations directory itself is tested
InstallationExists_DirOnly(version) == versions_dir

\* config.versions_dir().join(current_version.to_string()).exists()
InstallationExists(version) == InputVersionToString(version) \in versions

\* Faulty variant of Check: the stale link is removed before the installation check
Check_RemovesFirst ==
    /\ pc = "Checking"
    /\ IF ~InstallationExists(current_version)
       THEN /\ Fail(Result("VersionNotFound", current_version, <<>>, {}))
            /\ link' = NoLink
            /\ UNCHANGED from
       ELSE IF ~cmd.farm_path
       THEN /\ Fail(Result("FarmPathNotFound", NoVersion, <<>>, {}))
            /\ UNCHANGED <<from, link>>
       ELSE /\ from' = VersionsDirJoin(InputVersionToString(current_version))
            /\ pc' = "Removing"
            /\ UNCHANGED <<result, temp_dir, link>>
    /\ UNCHANGED <<versions_dir, downloads_dir, versions, version_files, cmd,
                   install_vars, current_version, symlink_deletion_result,
                   symlink_creation_result, pre>>
    /\ UNCHANGED <<listed, pure_vars>>

\* The installation check and the farm_path of the switch
Check ==
    /\ pc = "Checking"
    /\ IF ~InstallationExists(current_version)
       THEN /\ Fail(Result("VersionNotFound", current_version, <<>>, {}))
            /\ UNCHANGED from
       ELSE IF ~cmd.farm_path
       THEN /\ Fail(Result("FarmPathNotFound", NoVersion, <<>>, {}))
            /\ UNCHANGED from
       ELSE /\ from' = VersionsDirJoin(InputVersionToString(current_version))
            /\ pc' = "Removing"
            /\ UNCHANGED <<result, temp_dir>>
    /\ UNCHANGED <<versions_dir, downloads_dir, versions, link, version_files, cmd,
                   install_vars, current_version, symlink_deletion_result,
                   symlink_creation_result, pre>>
    /\ UNCHANGED <<listed, pure_vars>>

\* remove_symlink_dir(to): what is at `to` afterwards, and the io result
remove_symlink_dir(at, fault) ==
    IF at = NoLink THEN [link |-> at, res |-> "NotFound"]
    ELSE IF fault THEN [link |-> at, res |-> "RemoveFailed"]
    ELSE [link |-> NoLink, res |-> "Ok"]

\* create_symlink_dir(from, to): what is at `to` afterwards, and the io result
create_symlink_dir(target, at, fault) ==
    IF at # NoLink THEN [link |-> at, res |-> "AlreadyExists"]
    ELSE IF fault THEN [link |-> at, res |-> "CreateFailed"]
    ELSE [link |-> target, res |-> "Ok"]

\* Faulty variant of Remove: the stale link is not removed before the creation
Remove_Skipped(fault) ==
    /\ pc = "Removing"
    /\ symlink_deletion_result' = "Ok"
    /\ pc' = "Creating"
    /\ UNCHANGED <<fs, version_files, cmd, install_vars, current_version, from,
                   symlink_creation_result, result, pre>>
    /\ UNCHANGED <<listed, pure_vars>>

\* replace_symlink, first statement
Remove(fault) ==
    /\ pc = "Removing"
    /\ link' = remove_symlink_dir(link, fault).link
    /\ symlink_deletion_result' = remove_symlink_dir(link, fault).res
    /\ pc' = "Creating"
    /\ UNCHANGED <<versions_dir, downloads_dir, versions, temp_dir, version_files, cmd,
                   install_vars, current_version, from, symlink_creation_result, result,
                   pre>>
    /\ UNCHANGED <<listed, pure_vars>>

\* Faulty variant of ReplaceSymlinkResult: a failed removal is reported even when
\* the creation succeeded
ReplaceSymlinkResult_RemovalReported(deletion, creation) ==
    IF deletion # "Ok" THEN {deletion}
    ELSE IF creation = "Ok" THEN {}
    ELSE {creation}

\* The value of replace_symlink: Ok, or the errors of symlink_deletion_result.and(err)
ReplaceSymlinkResult(deletion, creation) ==
    IF creation = "Ok" THEN {}
    ELSE IF deletion = "Ok" THEN {creation}
    ELSE {deletion}

\* Faulty variant of AfterReplace: the error of the repoint is dropped
AfterReplace_ErrorDropped(errors) ==
    IF current_version = NoVersion
    THEN Result("CantInferVersion", NoVersion, <<>>, {})
    ELSE IF errors # {} THEN IoError(errors) ELSE Ok

\* What `apply` returns once replace_symlink returned
AfterReplace(errors) ==
    IF errors # {} THEN IoError(errors)
    ELSE IF current_version = NoVersion
    THEN Result("CantInferVersion", NoVersion, <<>>, {})
    ELSE Ok

\* replace_symlink, the match on create_symlink_dir, then the return of `apply`
Create(fault) ==
    /\ pc = "Creating"
    /\ link' = create_symlink_dir(from, link, fault).link
    /\ symlink_creation_result' = create_symlink_dir(from, link, fault).res
    /\ result' = AfterReplace(ReplaceSymlinkResult(symlink_deletion_result,
                                                   symlink_creation_result'))
    /\ pc' = IF result'.kind = "Ok" THEN "Activated" ELSE "Failed"
    /\ UNCHANGED <<versions_dir, downloads_dir, versions, temp_dir, version_files, cmd,
                   install_vars, current_version, from, symlink_deletion_result, pre>>
    /\ UNCHANGED <<listed, pure_vars>>

\* -------------------------------------------------- completions --list
StartList ==
    /\ pc \in Finished \cup {"Idle"}
    /\ pc' = "Listing"
    /\ cmd' = [NoCmd EXCEPT !.name = "completions"]
    /\ response' = "none"
    /\ installed_directory' = 0
    /\ build_status' = "none"
    /\ current_version' = NoVersion
    /\ from' = NoLink
    /\ symlink_deletion_result' = "none"
    /\ symlink_creation_result' = "none"
    /\ result' = NoResult
    /\ pre' = Snapshot
    /\ listed' = {}
    /\ UNCHANGED <<fs, version_files, pure_vars>>

\* The name of the staging directory: installations_dir.join(".downloads")
DotDownloads == <<".", "d", "o", "w", "n", "l", "o", "a", "d", "s">>

\* What config.versions_dir().read_dir() yields
DirEntries == versions \cup (IF downloads_dir THEN {DotDownloads} ELSE {})

\* is_dotfile(&entry): the file name starts with a dot
is_dotfile(name) == name # <<>> /\ Head(name) = "."

\* Faulty variant of ListedEntries: no entry is skipped
ListedEntries_Unfiltered == DirEntries

\* The entries the loop does not `continue` on
ListedEntries == {entry \in DirEntries : ~is_dotfile(entry)}

\* Completions::apply with self.list: one line per entry that is no dotfile
List(fault) ==
    /\ pc = "Listing"
    /\ IF fault \/ ~versions_dir
       THEN /\ Fail(IoError({"ReadDirFailed"}))
            /\ UNCHANGED listed
       ELSE IF \E entry \in ListedEntries : ~Parse(entry).ok
       THEN /\ Fail(Result("SemverError", NoVersion, <<>>, {}))
            /\ \E written \in SUBSET {entry \in ListedEntries : Parse(entry).ok} :
                  listed' = written
       ELSE /\ listed' = ListedEntries
            /\ pc' = "Listed"
            /\ result' = Ok
            /\ UNCHANGED temp_dir
    /\ UNCHANGED <<versions_dir, downloads_dir, versions, link, version_files, cmd,
                   install_vars, local_vars, pre, pure_vars>>

\* ------------------------------------------------------ specification
Next ==
    \/ \E arg \in InstallArgs : StartInstall(arg)
    \/ \E resp \in Responses :
         \E stage \in {"ok", "versions_dir_fails", "downloads_dir_fails", "temp_dir_fails"} :
           Download(resp, stage)
    \/ \E archive \in Archives :
         \E fault \in {"none", "extract_fails", "read_dir_fails"} : Extract(archive, fault)
    \/ \E outcome \in {"success", "failure", "fails_to_start"} : Build(outcome)
    \/ \E renamed \in BOOLEAN : Promote(renamed)
    \/ \E explicit \in LocalVersions \cup {NoVersion} :
         \E cwd \in Levels : \E cwd_ok, farm_path \in BOOLEAN :
           StartLocal(explicit, cwd, cwd_ok, farm_path)
    \/ Resolve
    \/ Infer
    \/ Check
    \/ \E fault \in BOOLEAN : Remove(fault)
    \/ \E fault \in BOOLEAN : Create(fault)
    \/ StartList
    \/ \E fault \in BOOLEAN : List(fault)

Spec == Init /\ [][Next]_vars



\* ------------------------------------- Version::parse and Display alone
\* Characters of the free-form texts
TextChars == {"v", "V", "1", ".", "a", "R", "-"}

\* Every non-empty text of at most MaxTextLen characters
ShortTexts == UNION {[1..n -> TextChars] : n \in 1..MaxTextLen}

\* Pre-release tags of the well-formed texts
PreTags == {<<>>, <<"r", "c">>, <<"R", "C">>}

\* major.minor.patch[-pre] texts
SemverTexts ==
    {SemverToStr(Semver(ma, mi, pa, pr)) : ma \in 0..MaxNum, mi \in 0..MaxNum,
                                           pa \in 0..MaxNum, pr \in PreTags}

\* Semantic-version texts with or without one leading v
ValidTexts == {prefix \o s : prefix \in {<<>>, <<"v">>, <<"V">>}, s \in SemverTexts}

\* The texts Version::parse is called with
Texts == ShortTexts \cup ValidTexts \cup {<<"v", "v">> \o s : s \in SemverTexts}

InitParse ==
    /\ versions_dir = FALSE
    /\ downloads_dir = FALSE
    /\ versions = {}
    /\ temp_dir = NoTemp
    /\ link = NoLink
    /\ version_files = [level \in Levels |-> NoVersion]
    /\ pc = "Idle"
    /\ cmd = NoCmd
    /\ response = "none"
    /\ installed_directory = 0
    /\ build_status = "none"
    /\ current_version = NoVersion
    /\ from = NoLink
    /\ symlink_deletion_result = "none"
    /\ symlink_creation_result = "none"
    /\ result = NoResult
    /\ pre = [versions_dir |-> FALSE, downloads_dir |-> FALSE, versions |-> {},
              link |-> NoLink]
    /\ listed = {}
    /\ text \in Texts
    /\ parsed = NotParsed
    /\ rendered = <<>>
    /\ reparsed = NotParsed
    /\ log_level = "Info"
    /\ outputs = <<>>

\* Version::parse(text)
ParseText ==
    /\ ~parsed.done
    /\ parsed' = [done |-> TRUE, ok |-> Parse(text).ok, version |-> Parse(text).version]
    /\ UNCHANGED <<fs, version_files, pc, cmd, install_vars, local_vars, result, pre,
                   listed, text, rendered, reparsed, log_vars>>

\* format!("{}", version) of the parsed version
RenderParsed ==
    /\ parsed.done
    /\ parsed.ok
    /\ rendered = <<>>
    /\ rendered' = Render(parsed.version)
    /\ UNCHANGED <<fs, version_files, pc, cmd, install_vars, local_vars, result, pre,
                   listed, text, parsed, reparsed, log_vars>>

\* Version::parse of the rendered text
Reparse ==
    /\ rendered # <<>>
    /\ ~reparsed.done
    /\ reparsed' = [done |-> TRUE, ok |-> Parse(rendered).ok,
                    version |-> Parse(rendered).version]
    /\ UNCHANGED <<fs, version_files, pc, cmd, install_vars, local_vars, result, pre,
                   listed, text, parsed, rendered, log_vars>>

NextParse ==
    \/ ParseText
    \/ RenderParsed
    \/ Reparse

SpecParse == InitParse /\ [][NextParse]_vars

\* ----------------------------------------------------- LogLevel alone
\* enum LogLevel, in declaration order: the order derive(Ord) gives
LogLevels == <<"Quiet", "Error", "Info">>

\* The position of a level in the declaration
Discriminant(level) == CHOOSE i \in DOMAIN LogLevels : LogLevels[i] = level

\* Faulty variant of is_writable: the comparison is turned around
is_writable_Reversed(self, level) == Discriminant(level) >= Discriminant(self)

\* LogLevel::is_writable: self.cmp(level) is Greater or Equal
is_writable(self, level) == Discriminant(self) >= Discriminant(level)

\* LogLevel::write: the stream a message of `level` goes to
write(self, level) ==
    IF is_writable(self, level)
    THEN IF level = "Error" THEN "stderr" ELSE "stdout"
    ELSE "sink"

InitLog ==
    /\ versions_dir = FALSE
    /\ downloads_dir = FALSE
    /\ versions = {}
    /\ temp_dir = NoTemp
    /\ link = NoLink
    /\ version_files = [dir \in Levels |-> NoVersion]
    /\ pc = "Idle"
    /\ cmd = NoCmd
    /\ response = "none"
    /\ installed_directory = 0
    /\ build_status = "none"
    /\ current_version = NoVersion
    /\ from = NoLink
    /\ symlink_deletion_result = "none"
    /\ symlink_creation_result = "none"
    /\ result = NoResult
    /\ pre = [versions_dir |-> FALSE, downloads_dir |-> FALSE, versions |-> {},
              link |-> NoLink]
    /\ listed = {}
    /\ text = <<>>
    /\ parsed = NotParsed
    /\ rendered = <<>>
    /\ reparsed = NotParsed
    /\ log_level \in {LogLevels[i] : i \in DOMAIN LogLevels}
    /\ outputs = <<>>

\* outln!(config#level, ..): writeln! to config.log_level.write(&level)
Outln(level) ==
    /\ Len(outputs) < MaxMessages
    /\ outputs' = Append(outputs, [level |-> level, stream |-> write(log_level, level)])
    /\ UNCHANGED <<fs, version_files, pc, cmd, install_vars, local_vars, result, pre,
                   listed, text, parsed, rendered, reparsed, log_level>>

NextLog == \E i \in DOMAIN LogLevels : Outln(LogLevels[i])

SpecLog == InitLog /\ [][NextLog]_vars

\* ------------------------------------------------------------- claims
Returned == pc \in {"Installed", "Activated", "Failed"}
NoVersionFile == get_user_version_for_directory(cmd.cwd) = NoVersion
ExplicitPath == VersionsDirJoin(InputVersionToString(cmd.explicit))

\* C1: when local is given an explicit version, the version it acts on is that
\* version (the one it checks, reports as not found, and links), whatever the
\* version files say, and the version file lookup is never entered.
C1_ExplicitVersionWins ==
    (cmd.name = "local" /\ cmd.explicit # NoVersion) =>
        /\ pc # "Inferring"
        /\ pc # "Resolving" => current_version = cmd.explicit
        /\ pc \in {"Removing", "Creating"} => from = ExplicitPath
        /\ result.kind = "VersionNotFound" => result.version = cmd.explicit
        /\ pc = "Activated" => link = ExplicitPath

\* C1 witness: local activated its explicit version although the version file
\* of the current directory pins another one.
C1_Witness ==
    /\ cmd.name = "local"
    /\ pc = "Activated"
    /\ cmd.explicit # NoVersion
    /\ version_files[cmd.cwd] # NoVersion
    /\ version_files[cmd.cwd] # cmd.explicit
    /\ link = ExplicitPath

\* C2 as stated: local with no explicit version and no version file always
\* returns CantInferVersion, with the shell link repointed to the global default.
C2_AlwaysCantInferVersion ==
    (cmd.name = "local" /\ cmd.explicit = NoVersion /\ NoVersionFile /\ Returned) =>
        /\ result.kind = "CantInferVersion"
        /\ link = DefaultVersionDir

\* C2 amended: local with no explicit version and no version file never succeeds
\* and never resolves a version; without farm_path it returns FarmPathNotFound and
\* leaves the link alone; with farm_path it returns CantInferVersion or the I/O
\* error of the repoint, and whenever it returns CantInferVersion the shell link
\* points at the global default link.
C2_CantInferVersionAfterRepoint ==
    (cmd.name = "local" /\ cmd.explicit = NoVersion /\ NoVersionFile /\ Returned) =>
        /\ pc = "Failed"
        /\ current_version = NoVersion
        /\ ~cmd.farm_path => (result.kind = "FarmPathNotFound" /\ link = pre.link)
        /\ cmd.farm_path => result.kind \in {"CantInferVersion", "IoError"}
        /\ result.kind = "CantInferVersion" => link = DefaultVersionDir

\* C2 witness: CantInferVersion was returned and the link, which pointed at an
\* installation before, now points at the global default link.
C2_Witness ==
    /\ cmd.name = "local"
    /\ cmd.explicit = NoVersion
    /\ NoVersionFile
    /\ pc = "Failed"
    /\ result.kind = "CantInferVersion"
    /\ pre.link.kind = "version"
    /\ link = DefaultVersionDir

\* C3: if the link exists before a switch, an observer finds a link at the link
\* path in every intermediate state of the switch.
C3_LinkNeverAbsent ==
    (pc \in {"Removing", "Creating"} /\ pre.link # NoLink) => link # NoLink

\* C4: if the creation step of a switch fails, the link that existed before the
\* switch still exists and points at the same target.
C4_FailedCreationKeepsLink ==
    (cmd.name = "local" /\ pc = "Failed"
        /\ symlink_creation_result \notin {"none", "Ok"}
        /\ pre.link # NoLink) => link = pre.link

\* C5: during and after an install, a directory that was not in the installations
\* directory when the install started is the requested version's, and is there
\* only once the promotion rename succeeded; a failed install adds none.
C5_OnlyPromotionInstalls ==
    cmd.name = "install" =>
        /\ \A n \in versions \ pre.versions :
              n = InstallationDirName /\ pc = "Installed" /\ result = Ok
        /\ pc \in {"Failed", "Panicked"} => versions = pre.versions

\* C5 witness: an install failed at the promotion step and the final path of the
\* requested version holds no directory.
C5_Witness ==
    /\ cmd.name = "install"
    /\ pc = "Failed"
    /\ result = IoError({"RenameFailed"})
    /\ InstallationDirName \notin versions

\* C6: on a 404 response install returns VersionNotFound carrying the requested
\* version and has not touched the file system.
C6_NotFoundBeforeMutation ==
    (cmd.name = "install" /\ response = "404") =>
        /\ pc = "Failed"
        /\ result = Result("VersionNotFound", NoVersion, cmd.arg, {})
        /\ Snapshot = pre
        /\ temp_dir = NoTemp

\* C6 witness: a 404 on a fresh base directory: nothing exists under it afterwards.
C6_Witness ==
    /\ cmd.name = "install"
    /\ response = "404"
    /\ pc = "Failed"
    /\ ~versions_dir /\ ~downloads_dir /\ versions = {}

\* C7: once local has checked its resolved version, it reports VersionNotFound
\* (for that version) exactly when the installations directory has no entry
\* named after it.
C7_NotInstalledIsVersionNotFound ==
    (cmd.name = "local" /\ current_version # NoVersion
        /\ pc \notin {"Resolving", "Inferring", "Checking"}) =>
        /\ result.kind = "VersionNotFound" <=>
              InputVersionToString(current_version) \notin versions
        /\ result.kind = "VersionNotFound" =>
              (pc = "Failed" /\ result.version = current_version)

\* C7 witness: VersionNotFound for a version that is not installed while another
\* one is installed and linked.
C7_Witness ==
    /\ cmd.name = "local"
    /\ pc = "Failed"
    /\ result.kind = "VersionNotFound"
    /\ versions # {}
    /\ link.kind = "version"

\* C8 as stated: local with an explicit installed version always succeeds and
\* leaves the shell link pointing at that installation.
C8_InstalledAlwaysActivates ==
    (cmd.name = "local" /\ cmd.explicit # NoVersion
        /\ InputVersionToString(cmd.explicit) \in versions /\ Returned) =>
        /\ pc = "Activated"
        /\ link = ExplicitPath

\* C8 amended: local with an explicit installed version succeeds, with the shell
\* link pointing at that installation, whether or not a link existed before,
\* provided farm_path is configured and neither the removal of an existing link
\* nor the creation of the new link fails; without farm_path it returns
\* FarmPathNotFound and leaves the link alone.
C8_InstalledActivates ==
    (cmd.name = "local" /\ cmd.explicit # NoVersion
        /\ InputVersionToString(cmd.explicit) \in versions /\ Returned) =>
        IF ~cmd.farm_path
        THEN result.kind = "FarmPathNotFound" /\ link = pre.link
        ELSE IF symlink_deletion_result = "RemoveFailed"
                \/ symlink_creation_result = "CreateFailed"
        THEN result.kind = "IoError"
        ELSE pc = "Activated" /\ result = Ok /\ link = ExplicitPath

\* C8 witness: local succeeded although a link to another target existed.
C8_Witness ==
    /\ cmd.name = "local"
    /\ cmd.explicit # NoVersion
    /\ pc = "Activated"
    /\ pre.link # NoLink
    /\ pre.link # ExplicitPath
    /\ link = ExplicitPath

\* C9: a successful install of an exact version v leaves the installation at
\* installationsDir()/render(v), the v-prefixed name.
C9_InstalledAtRenderedName ==
    (cmd.name = "install" /\ pc = "Installed" /\ Parse(cmd.arg).ok
        /\ Parse(cmd.arg).version.kind = "Semver") =>
        Render(Parse(cmd.arg).version) \in versions

InstallSteps == {"Downloading", "Extracting", "Building", "Promoting"}

\* A step of the pipeline is entered only from the step before it
InOrder(a, b) ==
    /\ b = "Extracting" => a = "Downloading"
    /\ b = "Building" => a = "Extracting"
    /\ b = "Promoting" => a = "Building"
    /\ b = "Installed" => a = "Promoting"
    /\ b = "Downloading" => a \in Finished \cup {"Idle"}
    /\ a \in Finished => b \notin InstallSteps \ {"Downloading"}

\* What has completed when the pipeline is at a step
StepsCompleted ==
    /\ pc \in {"Extracting", "Building", "Promoting", "Installed"} =>
          response \in {"200", "500"}
    /\ pc = "Extracting" => (temp_dir.exists /\ installed_directory = 0)
    /\ pc \in {"Building", "Promoting"} => installed_directory \in temp_dir.entries
    /\ pc = "Building" => build_status = "none"
    /\ pc \in {"Promoting", "Installed"} => build_status \in {"success", "failure"}
    /\ pc = "Installed" => InstallationDirName \in versions

\* C10: the pipeline runs Downloading, Extracting, Building, Promoting in this
\* order, each step entered only when the one before has completed; Installed is
\* entered only from Promoting, and after Failed nothing but a new run starts.
C10_StrictlySequential ==
    /\ [](cmd.name = "install" => StepsCompleted)
    /\ [][pc' # pc => InOrder(pc, pc')]_vars

\* C10 witness: a run reached Installed after a build that was started and ended.
C10_Witness ==
    /\ cmd.name = "install"
    /\ pc = "Installed"
    /\ build_status = "success"
    /\ response = "200"


\* C11: on a non-success status other than 404 (500) install fails with a download
\* failure and does not go on to extract, build or promote.
C11_ServerErrorFailsDownload ==
    (cmd.name = "install" /\ response = "500") =>
        /\ pc = "Failed"
        /\ result.kind = "HttpError"
        /\ temp_dir = NoTemp

\* C12: the build and the promotion run only when the extracted temp directory
\* holds exactly one top-level entry; with more, install fails and promotes nothing.
C12_SingleTopLevelEntry ==
    (cmd.name = "install" /\ pc \in {"Building", "Promoting"}) =>
        Cardinality(temp_dir.entries) = 1

C14_BothErrorsCombined ==
    (cmd.name = "local" /\ pc = "Failed" /\ pre.link # NoLink
        /\ symlink_deletion_result \notin {"none", "Ok"}
        /\ symlink_creation_result \notin {"none", "Ok"}) =>
        /\ result.kind = "IoError"
        /\ result.io = {symlink_deletion_result, symlink_creation_result}

\* C19: every failure of install and local is returned as an error value; no
\* failing step ends the process.
C19_NoFailureEndsTheProcess == pc # "Panicked"

\* C20: once the build processes have run and returned, with success or with
\* failure, install goes on to the promotion; the only failure left is the
\* rename's, so a failed build can end in Installed.
C20_BuildOutcomeIgnored ==
    (cmd.name = "install" /\ build_status # "none") =>
        /\ pc \in {"Promoting", "Installed", "Failed"}
        /\ pc = "Failed" => result = IoError({"RenameFailed"})
        /\ pc = "Installed" => (result = Ok /\ InstallationDirName \in versions)

\* C20 witness: a run whose build exited with failure ended in Installed.
C20_Witness ==
    /\ cmd.name = "install"
    /\ pc = "Installed"
    /\ build_status = "failure"
    /\ InstallationDirName \in versions


Stripped(s) == TrimStartMatchesV(ToLowercase(s))

\* The text is an optional single v or V followed by a digit
OptionalVThenDigit(s) ==
    \/ IsDigit(Head(s))
    \/ Len(s) > 1 /\ s[1] \in {"v", "V"} /\ IsDigit(s[2])

\* C15 as stated: parse of a non-empty text never returns an error.
C15_ParseNeverFails == (parsed.done /\ text # <<>>) => parsed.ok

\* C15, amended: parse returns an alias named by the lowercased text when the
\* lowercased text without its leading v's does not begin with a digit; otherwise
\* it returns the semantic version that text denotes, or a semver error when it
\* denotes none (always so when it is shorter than five characters).
C15_ParseAliasExactOrError ==
    parsed.done =>
        /\ ~start_with_number(Stripped(text))
              => (parsed.ok /\ parsed.version = Alias(ToLowercase(text)))
        /\ start_with_number(Stripped(text))
              => /\ parsed.ok => /\ parsed.version.kind = "Semver"
                                 /\ SemverToStr(parsed.version) = Stripped(text)
                 /\ text \in ValidTexts => parsed.ok
                 /\ Len(Stripped(text)) < 5 => ~parsed.ok

\* C15 witness: parse returned a semver error for a text that begins with a digit.
C15_Witness ==
    /\ parsed.done
    /\ ~parsed.ok
    /\ IsDigit(Head(text))

\* C16: a text that is not an optional single v or V followed by a digit parses
\* to the alias named by the lowercased text, and only texts of that form parse
\* to an exact version.
C16_OnlyOptionalVThenDigitIsExact ==
    (parsed.done /\ text # <<>>) =>
        /\ ~OptionalVThenDigit(text)
              => (parsed.ok /\ parsed.version = Alias(ToLowercase(text)))
        /\ (parsed.ok /\ parsed.version.kind = "Semver") => OptionalVThenDigit(text)

\* C17: for a semantic-version text with or without a leading v, the rendered
\* parse result parses back to the same value and is the text with its leading v
\* normalised; the rendering of an alias is its name.
C17_RoundTrip ==
    /\ (text \in ValidTexts /\ parsed.done) => parsed.ok
    /\ (text \in ValidTexts /\ rendered # <<>>)
          => rendered = <<"v">> \o (IF Head(text) \in {"v", "V"} THEN Tail(text) ELSE text)
    /\ (text \in ValidTexts /\ reparsed.done)
          => (reparsed.ok /\ reparsed.version = parsed.version)
    /\ (parsed.ok /\ parsed.version.kind = "Alias" /\ rendered # <<>>)
          => rendered = parsed.version.name


\* C21: a switch attempts the creation of the link whatever the removal returned,
\* and when the removal failed but the creation succeeded the switch reports
\* success: the link points at the new target and no I/O error is returned.
C21_CreationSucceedsAfterFailedRemoval ==
    (cmd.name = "local" /\ pc \in Finished) =>
        /\ symlink_deletion_result # "none" => symlink_creation_result # "none"
        /\ (symlink_deletion_result \notin {"none", "Ok"} /\ symlink_creation_result = "Ok")
              => /\ link = from
                 /\ result.kind # "IoError"
                 /\ current_version # NoVersion => (pc = "Activated" /\ result = Ok)

\* C21 witness: the removal failed, the creation succeeded and local returned Ok.
C21_Witness ==
    /\ cmd.name = "local"
    /\ pc = "Activated"
    /\ symlink_deletion_result \notin {"none", "Ok"}
    /\ symlink_creation_result = "Ok"
    /\ result = Ok


C23_VersionNotFoundKeepsLink ==
    (cmd.name = "local" /\ result.kind = "VersionNotFound") =>
        /\ pc = "Failed"
        /\ link = pre.link
        /\ symlink_deletion_result = "none"
        /\ symlink_creation_result = "none"

\* C23 witness: VersionNotFound for a version taken from a version file, with a
\* link in place that is still there.
C23_Witness ==
    /\ cmd.name = "local"
    /\ cmd.explicit = NoVersion
    /\ result.kind = "VersionNotFound"
    /\ pre.link # NoLink
    /\ link = pre.link


\* C24: when local returns without an explicit version and without a version file,
\* it returns FarmPathNotFound and has touched no link if farm_path is not
\* configured; it returns the I/O error when the repoint to the global default
\* failed; and it returns CantInferVersion only when the repoint succeeded.
C24_CantInferVersionOnlyAfterRepoint ==
    (cmd.name = "local" /\ cmd.explicit = NoVersion /\ NoVersionFile /\ Returned) =>
        /\ ~cmd.farm_path
              => /\ result.kind = "FarmPathNotFound"
                 /\ link = pre.link
                 /\ symlink_deletion_result = "none"
                 /\ symlink_creation_result = "none"
        /\ (cmd.farm_path /\ symlink_creation_result # "Ok") => result.kind = "IoError"
        /\ result.kind = "CantInferVersion"
              => /\ cmd.farm_path
                 /\ symlink_creation_result = "Ok"
                 /\ link = DefaultVersionDir

\* C24 witness: the repoint to the global default failed at the creation of the
\* link and local returned the I/O error.
C24_Witness ==
    /\ cmd.name = "local"
    /\ cmd.explicit = NoVersion
    /\ NoVersionFile
    /\ from = DefaultVersionDir
    /\ symlink_creation_result \notin {"none", "Ok"}
    /\ pc = "Failed"
    /\ result.kind = "IoError"


\* C25: a message is written exactly when the configured level is at least the
\* message's level in the order Quiet < Error < Info, so Quiet suppresses Error
\* and Info messages and Error suppresses Info messages; a written Error message
\* goes to stderr and every other written message to stdout.
C25_LogFilterFollowsOrder ==
    \A i \in 1..Len(outputs) :
        LET message == outputs[i]
            written == message.stream # "sink"
        IN  /\ written <=> \/ log_level = "Info"
                           \/ log_level = "Error" /\ message.level \in {"Error", "Quiet"}
                           \/ log_level = "Quiet" /\ message.level = "Quiet"
            /\ (log_level = "Quiet" /\ message.level \in {"Error", "Info"}) => ~written
            /\ (log_level = "Error" /\ message.level = "Info") => ~written
            /\ written => message.stream = IF message.level = "Error" THEN "stderr"
                                                                      ELSE "stdout"

\* C25 witness: under the Error configuration an Error message went to stderr and
\* an Info message was suppressed.
C25_Witness ==
    /\ log_level = "Error"
    /\ \E i \in 1..Len(outputs) :
          outputs[i] = [level |-> "Error", stream |-> "stderr"]
    /\ \E i \in 1..Len(outputs) :
          outputs[i] = [level |-> "Info", stream |-> "sink"]

====
